---------------------------- MODULE Spec2Model ----------------------------
(***************************************************************************)
(* Model of the Go MCP server of src/main.go: the tool registry            *)
(* (MCPServer.tools), the JSON-RPC envelope codec (encoding/json applied   *)
(* to JSONRPCRequest / JSONRPCResponse), the method dispatcher             *)
(* (MCPServer.handleMCP) and the tool executor (MCPServer.executeTool).    *)
(*                                                                         *)
(* JSON texts are modelled as tagged records (field k names the JSON       *)
(* kind), Go values held in interface{} as records tagged by t.  An        *)
(* integer JSON number is its sign and its binary digits, most significant *)
(* first, so that the float64 an interface{} holds can be computed with    *)
(* its real 53 bit significand.                                            *)
(***************************************************************************)
EXTENDS Integers, Sequences, FiniteSets, TLC

VARIABLES
    mainpc,   \* position of func main: "new", "ready", "serving"
    tools,    \* MCPServer.tools: map from tool name to Tool
    regLog,   \* history: the Tool values written to the registry, in order
    conns     \* per connection: the handleMCP invocation it carries

vars == <<mainpc, tools, regLog, conns>>

-----------------------------------------------------------------------------
(* Bounds of the model *)

\* number of connections whose requests are handled concurrently
NConns == 2

\* number of registry writes a caller of the MCPServer type performs
MaxRegs == 3

Conns == 1..NConns

-----------------------------------------------------------------------------
(* JSON texts *)

\* significand width of the float64 that encoding/json stores in interface{}
MantissaBits == 53

RECURSIVE NatBits(_)
\* binary digits of a natural number, most significant first (0 is <<>>)
NatBits(n) == IF n = 0 THEN <<>> ELSE Append(NatBits(n \div 2), n % 2)

JNull == [k |-> "null"]
JStr(s) == [k |-> "string", s |-> s]
JBool(b) == [k |-> "bool", b |-> b]
JNumBits(neg, bits) == [k |-> "number", neg |-> neg, bits |-> bits]
JInt(n) == JNumBits(n < 0, NatBits(IF n < 0 THEN -n ELSE n))
JArr(items) == [k |-> "array", items |-> items]
JObj(fields) == [k |-> "object", f |-> fields]

\* bytes that are not a JSON text
Malformed == [k |-> "malformed"]

\* no bytes at all: a nil json.RawMessage, a field left out of an object
NoBytes == [k |-> "nobytes"]

EmptyObj == JObj(<<>>)

HasField(v, name) == v.k = "object" /\ name \in DOMAIN v.f

Field(v, name) == IF HasField(v, name) THEN v.f[name] ELSE NoBytes

-----------------------------------------------------------------------------
(* Go values held in an interface{} *)

GoNil == [t |-> "nil"]
GoString(s) == [t |-> "string", s |-> s]
GoFloat64(neg, bits) == [t |-> "float64", neg |-> neg, bits |-> bits]
GoOther(v) == [t |-> "other", v |-> v]

RECURSIVE Inc(_)
\* binary increment of a digit sequence
Inc(bits) ==
    IF bits = <<>> THEN <<1>>
    ELSE LET n == Len(bits) IN
         IF bits[n] = 0 THEN [bits EXCEPT ![n] = 1]
         ELSE Append(Inc(SubSeq(bits, 1, n - 1)), 0)

Zeros(n) == [i \in 1..n |-> 0]

\* strconv.ParseFloat on an integer literal: round to nearest, ties to even,
\* keeping MantissaBits significant binary digits
RoundToFloat64(bits) ==
    IF Len(bits) <= MantissaBits THEN bits
    ELSE LET mant == SubSeq(bits, 1, MantissaBits)
             rest == SubSeq(bits, MantissaBits + 1, Len(bits))
             half == rest[1] = 1 /\ \A i \in 2..Len(rest) : rest[i] = 0
             above == rest[1] = 1 /\ ~half
             up == above \/ (half /\ mant[MantissaBits] = 1)
         IN (IF up THEN Inc(mant) ELSE mant) \o Zeros(Len(rest))


\* json.Unmarshal of a JSON value into an interface{}: null is nil, a string a
\* string, a number a float64; the other kinds come back as the same value
DecodeInterface(v) ==
    CASE v.k = "null" -> GoNil
      [] v.k = "string" -> GoString(v.s)
      [] v.k = "number" -> GoFloat64(v.neg, RoundToFloat64(v.bits))
      [] OTHER -> GoOther(v)

\* json.Marshal of an interface{}; a float64 holding an integer below 1e21 is
\* written in full
EncodeInterface(g) ==
    CASE g.t = "nil" -> JNull
      [] g.t = "string" -> JStr(g.s)
      [] g.t = "float64" -> JNumBits(g.neg, g.bits)
      [] OTHER -> g.v

-----------------------------------------------------------------------------
(* Envelope codec: decoding *)

ZeroRequest == [JSONRPC |-> "", ID |-> GoNil, Method |-> "", Params |-> NoBytes]

\* a field of Go type string: left "" when absent or null, an
\* UnmarshalTypeError when the JSON value is of another kind
StringField(v, name) ==
    LET f == Field(v, name) IN
    CASE f.k \in {"nobytes", "null"} -> [err |-> FALSE, s |-> ""]
      [] f.k = "string" -> [err |-> FALSE, s |-> f.s]
      [] OTHER -> [err |-> TRUE, s |-> ""]

\* json.Unmarshal(body, &req) with req a JSONRPCRequest
UnmarshalRequest(body) ==
    CASE body.k = "null" -> [err |-> FALSE, req |-> ZeroRequest]
      [] body.k = "object" ->
            LET j == StringField(body, "jsonrpc")
                m == StringField(body, "method")
            IN [err |-> j.err \/ m.err,
                req |-> [JSONRPC |-> j.s,
                         ID |-> IF HasField(body, "id")
                                THEN DecodeInterface(body.f["id"])
                                ELSE GoNil,
                         Method |-> m.s,
                         Params |-> Field(body, "params")]]
      [] OTHER -> [err |-> TRUE, req |-> ZeroRequest]

\* json.Unmarshal(req.Params, &params) in the tools/call case; the error is
\* dropped and the fields that did decode are kept
UnmarshalCallParams(raw) ==
    IF raw.k = "object"
    THEN [Name |-> StringField(raw, "name").s, Arguments |-> Field(raw, "arguments")]
    ELSE [Name |-> "", Arguments |-> NoBytes]

\* json.Unmarshal(args, &params) of the echo tool; the error is dropped
UnmarshalEchoParams(args) ==
    IF args.k = "object"
    THEN [Message |-> StringField(args, "message").s]
    ELSE [Message |-> ""]

-----------------------------------------------------------------------------
(* Tool registry *)

Tool(name, description, schema) ==
    [Name |-> name, Description |-> description, InputSchema |-> schema]

SystemInfoTool ==
    Tool("system_info", "Get system information",
         JObj([type |-> JStr("object"), properties |-> EmptyObj]))

EchoTool ==
    Tool("echo", "Echo back a message",
         JObj([type |-> JStr("object"),
               properties |-> JObj([message |->
                   JObj([type |-> JStr("string"),
                         description |-> JStr("Message to echo")])]),
               required |-> JArr(<<JStr("message")>>)]))

\* make(map[string]Tool)
EmptyRegistry == <<>>

\* mutant of Register: an existing entry is kept, the first registration wins
RegisterKeepFirst(registry, tool) ==
    [n \in DOMAIN registry \cup {tool.Name} |->
        IF n \in DOMAIN registry THEN registry[n] ELSE tool]

\* s.tools[name] = Tool{Name: name, ...}: a map write keyed by the tool's name
Register(registry, tool) ==
    [n \in DOMAIN registry \cup {tool.Name} |->
        IF n = tool.Name THEN tool ELSE registry[n]]

\* mutant of setupTools: the echo descriptor is stored under a misspelt name
setupToolsMisnamed(registry) ==
    Register(Register(registry, SystemInfoTool), [EchoTool EXCEPT !.Name = "Echo"])

\* the two registry writes of setupTools
setupTools(registry) == Register(Register(registry, SystemInfoTool), EchoTool)

\* json.Marshal of a Tool
EncodeTool(tool) ==
    JObj([name |-> JStr(tool.Name),
          description |-> JStr(tool.Description),
          inputSchema |-> tool.InputSchema])

-----------------------------------------------------------------------------
(* Tool executor *)

\* runtime.GOOS, runtime.GOARCH, runtime.Version(), runtime.NumCPU(): fixed
\* for one build and host
Runtime == [GOOS |-> "linux", GOARCH |-> "amd64", Version |-> "go1.21", NumCPU |-> 2]

ContentBlock(text) ==
    JObj([content |-> JArr(<<JObj([type |-> JStr("text"), text |-> JStr(text)])>>)])

UnknownTool == JObj([error |-> JStr("Unknown tool")])

\* mutant of executeTool: echo rejects arguments that do not decode
executeToolStrict(name, args) ==
    CASE name = "system_info" ->
            ContentBlock("OS: " \o Runtime.GOOS \o "\nArch: " \o Runtime.GOARCH
                         \o "\nGo Version: " \o Runtime.Version
                         \o "\nCPUs: " \o ToString(Runtime.NumCPU))
      [] name = "echo" ->
            IF args.k # "object" \/ StringField(args, "message").err
            THEN JObj([error |-> JStr("Invalid arguments")])
            ELSE ContentBlock("Echo: " \o StringField(args, "message").s)
      [] OTHER -> UnknownTool

executeTool(name, args) ==
    CASE name = "system_info" ->
            ContentBlock("OS: " \o Runtime.GOOS \o "\nArch: " \o Runtime.GOARCH
                         \o "\nGo Version: " \o Runtime.Version
                         \o "\nCPUs: " \o ToString(Runtime.NumCPU))
      [] name = "echo" ->
            ContentBlock("Echo: " \o UnmarshalEchoParams(args).Message)
      [] OTHER -> UnknownTool

-----------------------------------------------------------------------------
(* Envelope codec: encoding *)

\* a Go slice: nil or not, and its elements
Slice(isNil, elems) == [nil |-> isNil, elems |-> elems]

\* json.Marshal of a slice: a nil slice is null, any other an array
EncodeSlice(sl) == IF sl.nil THEN JNull ELSE JArr(sl.elems)

RPCError(code, message) == [Code |-> code, Message |-> message, Data |-> GoNil]

\* json.Marshal of a JSONRPCError: data is omitted when nil
EncodeError(e) ==
    JObj([code |-> JInt(e.Code), message |-> JStr(e.Message)]
         @@ (IF e.Data = GoNil THEN <<>> ELSE [data |-> EncodeInterface(e.Data)]))

\* the Go struct JSONRPCResponse
RPCResponse(id, result, error) ==
    [JSONRPC |-> "2.0", ID |-> id, Result |-> result, Error |-> error]

\* mutant of EncodeResponse: result and error lack omitempty
EncodeResponseNoOmit(r) ==
    JObj([jsonrpc |-> JStr(r.JSONRPC),
          id |-> EncodeInterface(r.ID),
          result |-> IF r.Result = GoNil THEN JNull ELSE EncodeInterface(r.Result),
          error |-> IF r.Error = GoNil THEN JNull ELSE EncodeError(r.Error)])

\* json.NewEncoder(w).Encode(&JSONRPCResponse{...}): jsonrpc and id are always
\* written, result and error are omitempty
EncodeResponse(r) ==
    JObj([jsonrpc |-> JStr(r.JSONRPC), id |-> EncodeInterface(r.ID)]
         @@ (IF r.Result = GoNil THEN <<>> ELSE [result |-> EncodeInterface(r.Result)])
         @@ (IF r.Error = GoNil THEN <<>> ELSE [error |-> EncodeError(r.Error)]))

-----------------------------------------------------------------------------
(* HTTP responses *)

JSONType == "application/json"
TextType == "text/plain; charset=utf-8"

NoBody == [k |-> "nobody"]
TextBody(s) == [k |-> "text", s |-> s]

HTTPResponse(status, contentType, body) ==
    [status |-> status, contentType |-> contentType, cors |-> "*", body |-> body]

\* http.Error(w, msg, code): replaces the Content-Type header by text/plain and
\* writes the message as the body
httpError(msg, code) == HTTPResponse(code, TextType, TextBody(msg \o "\n"))

\* json.NewEncoder(w).Encode(v) on a response whose Content-Type header was set
\* at the top of handleMCP; the status is the implicit 200
WriteJSON(v) == HTTPResponse(200, JSONType, v)

NoResponse == [status |-> 0, contentType |-> "", cors |-> "", body |-> NoBody]

\* the body written for GET
ServerInfo ==
    JObj([name |-> JStr("Go MCP Server"),
          version |-> JStr("1.0.0"),
          protocol |-> JStr("2024-11-05"),
          capabilities |-> JObj([tools |-> JObj([listChanged |-> JBool(TRUE)])])])

-----------------------------------------------------------------------------
(* Method dispatcher *)

InitializeResult ==
    JObj([protocolVersion |-> JStr("2024-11-05"),
          capabilities |-> JObj([tools |-> JObj([listChanged |-> JBool(TRUE)])]),
          serverInfo |-> JObj([name |-> JStr("Go MCP Server"),
                               version |-> JStr("1.0.0")])])

\* the response to a body that json.Unmarshal rejects
parseError == RPCResponse(GoNil, GoNil, RPCError(-32700, "Parse error"))

\* the orders in which a range over a Go map may visit its keys
IterationOrders(registry) ==
    LET keys == DOMAIN registry
        n == Cardinality(keys)
    IN {o \in [1..n -> keys] : \A i, j \in 1..n : o[i] = o[j] => i = j}

\* mutant of listTools: var tools []Tool, nil until the first append
listToolsNilSlice(registry, order) ==
    Slice(Len(order) = 0, [i \in 1..Len(order) |-> EncodeTool(registry[order[i]])])

\* tools := []Tool{}; for _, tool := range s.tools { tools = append(tools, tool) }
listTools(registry, order) ==
    Slice(FALSE, [i \in 1..Len(order) |-> EncodeTool(registry[order[i]])])

\* the switch on req.Method; order is the map iteration order of this call
dispatch(req, registry, order) ==
    CASE req.Method = "initialize" ->
            RPCResponse(req.ID, GoOther(InitializeResult), GoNil)
      [] req.Method = "tools/list" ->
            RPCResponse(req.ID,
                        GoOther(JObj([tools |-> EncodeSlice(listTools(registry, order))])),
                        GoNil)
      [] req.Method = "tools/call" ->
            LET params == UnmarshalCallParams(req.Params) IN
            RPCResponse(req.ID, GoOther(executeTool(params.Name, params.Arguments)), GoNil)
      [] OTHER ->
            RPCResponse(req.ID, GoNil, RPCError(-32601, "Method not found"))

\* the names handed to executeTool by one pass through the switch
toolCalls(req) ==
    IF req.Method = "tools/call" THEN <<UnmarshalCallParams(req.Params).Name>> ELSE <<>>

-----------------------------------------------------------------------------
(* Requests the clients send *)

Opt(name, v) == IF v = NoBytes THEN <<>> ELSE name :> v

\* a JSON-RPC request object; NoBytes leaves the member out
MakeBody(id, method, params) ==
    JObj(("jsonrpc" :> JStr("2.0")) @@ Opt("id", id) @@ Opt("method", method)
         @@ Opt("params", params))

CallParams(name, arguments) == JObj(Opt("name", name) @@ Opt("arguments", arguments))

\* 2^53 + 1 and 2^53 + 3: integers that no float64 holds
BigId == JNumBits(FALSE, <<1>> \o Zeros(MantissaBits - 1) \o <<1>>)
BigOddId == JNumBits(FALSE, <<1>> \o Zeros(MantissaBits - 2) \o <<1, 1>>)

Ids == {NoBytes, JNull, JInt(7), JStr("a"), BigId, BigOddId}

PlainMethods == {NoBytes, JStr("initialize"), JStr("tools/list"), JStr("does-not-exist")}

CallParamsSet ==
    { NoBytes,
      JArr(<<>>),
      CallParams(JStr("echo"), JObj([message |-> JStr("hi")])),
      CallParams(JStr("echo"), NoBytes),
      CallParams(JStr("echo"), EmptyObj),
      CallParams(JStr("echo"), JObj([message |-> JInt(5)])),
      CallParams(JStr("echo"), JStr("hi")),
      CallParams(JStr("system_info"), EmptyObj),
      CallParams(JInt(5), JObj([message |-> JStr("hi")])) }

Bodies ==
    {MakeBody(id, m, NoBytes) : id \in Ids, m \in PlainMethods}
    \cup {MakeBody(id, JStr("tools/call"), CallParams(JStr("bogus"), EmptyObj)) : id \in Ids}
    \cup {MakeBody(id, JStr("tools/call"), p) : id \in {JInt(7), NoBytes}, p \in CallParamsSet}
    \cup {Malformed, JNull, JArr(<<>>), JStr("initialize"),
          MakeBody(JInt(7), JInt(5), NoBytes),
          JObj([jsonrpc |-> JInt(2), id |-> JInt(7), method |-> JStr("initialize")])}

HTTPRequest(method, readErr, body) ==
    [method |-> method, readErr |-> readErr, body |-> body]

Requests ==
    {HTTPRequest(m, FALSE, NoBytes) : m \in {"GET", "OPTIONS", "PUT"}}
    \cup {HTTPRequest("POST", TRUE, NoBytes)}
    \cup {HTTPRequest("POST", FALSE, b) : b \in Bodies}

\* one request of each outcome, for the connections handled concurrently
ConcurrentRequests ==
    {HTTPRequest(m, FALSE, NoBytes) : m \in {"GET", "PUT"}}
    \cup {HTTPRequest("POST", FALSE, b) : b \in
            {Malformed,
             MakeBody(JInt(7), JStr("initialize"), NoBytes),
             MakeBody(JInt(7), JStr("tools/list"), NoBytes),
             MakeBody(JInt(7), JStr("does-not-exist"), NoBytes),
             MakeBody(JInt(7), JStr("tools/call"),
                      CallParams(JStr("echo"), JObj([message |-> JStr("hi")])))}}

\* the requests that read the registry or name a tool
RegistryRequests ==
    {HTTPRequest("POST", FALSE, MakeBody(JInt(7), JStr("tools/list"), NoBytes))}
    \cup {HTTPRequest("POST", FALSE,
                      MakeBody(JInt(7), JStr("tools/call"), CallParams(JStr(n), EmptyObj))) :
             n \in {"echo", "extra"}}

\* the Tool values a caller of the MCPServer type writes to the registry
Descriptors ==
    {SystemInfoTool, EchoTool,
     Tool("echo", "Echo, second registration", JObj([type |-> JStr("object")])),
     Tool("extra", "Another tool", JObj([type |-> JStr("object")]))}

-----------------------------------------------------------------------------
(* State *)

NoRequest == HTTPRequest("", FALSE, NoBytes)

IdleConn ==
    [pc |-> "idle", in |-> NoRequest, req |-> ZeroRequest, resp |-> NoResponse,
     dispatched |-> FALSE, execs |-> <<>>]

\* server := NewMCPServer()
Init ==
    /\ mainpc = "new"
    /\ tools = EmptyRegistry
    /\ regLog = <<>>
    /\ conns = [c \in Conns |-> IdleConn]

\* server.setupTools()
SetupTools ==
    /\ mainpc = "new"
    /\ tools' = setupTools(tools)
    /\ regLog' = regLog \o <<SystemInfoTool, EchoTool>>
    /\ mainpc' = "ready"
    /\ UNCHANGED conns

\* mutant of ListenAndServe: the listener starts without waiting for setupTools
ListenBeforeSetup ==
    /\ mainpc \in {"new", "ready"}
    /\ mainpc' = "serving"
    /\ UNCHANGED <<tools, regLog, conns>>

\* http.HandleFunc("/mcp", server.handleMCP); http.ListenAndServe(...)
ListenAndServe ==
    /\ mainpc = "ready"
    /\ mainpc' = "serving"
    /\ UNCHANGED <<tools, regLog, conns>>

\* handleMCP up to the decoding of the body, for a request
\* arriving on connection c
handleMCP(c, in) ==
    /\ mainpc = "serving"
    /\ conns[c].pc \in {"idle", "done"}
    /\ LET finish(resp) ==
               [IdleConn EXCEPT !.pc = "done", !.in = in, !.resp = resp]
           decoded == UnmarshalRequest(in.body)
       IN conns' = [conns EXCEPT ![c] =
               CASE in.method = "OPTIONS" -> finish(HTTPResponse(200, JSONType, NoBody))
                 [] in.method = "GET" -> finish(WriteJSON(ServerInfo))
                 [] in.method # "POST" -> finish(httpError("Method not allowed", 405))
                 [] in.readErr -> finish(httpError("Failed to read body", 400))
                 [] decoded.err -> finish(WriteJSON(EncodeResponse(parseError)))
                 [] OTHER ->
                       [IdleConn EXCEPT !.pc = "dispatch", !.in = in, !.req = decoded.req]]
    /\ UNCHANGED <<mainpc, tools, regLog>>

\* handleMCP from the switch on req.Method to its end
handleMCPDispatch(c) ==
    /\ conns[c].pc = "dispatch"
    /\ \E order \in IterationOrders(tools) :
          LET req == conns[c].req IN
          conns' = [conns EXCEPT ![c] =
              [@ EXCEPT !.pc = "done",
                        !.dispatched = TRUE,
                        !.execs = toolCalls(req),
                        !.resp = WriteJSON(EncodeResponse(dispatch(req, tools, order)))]]
    /\ UNCHANGED <<mainpc, tools, regLog>>

\* the program: main, then the requests of NConns connections, concurrently
Next ==
    \/ SetupTools
    \/ ListenAndServe
    \/ \E c \in Conns, in \in ConcurrentRequests : handleMCP(c, in)
    \/ \E c \in Conns : handleMCPDispatch(c)

Spec == Init /\ [][Next]_vars

\* the program serving one connection, over every request shape
NextSerial ==
    \/ SetupTools
    \/ ListenAndServe
    \/ \E in \in Requests : handleMCP(1, in)
    \/ handleMCPDispatch(1)

SpecSerial == Init /\ [][NextSerial]_vars

-----------------------------------------------------------------------------
(* The MCPServer type under a caller that fills the registry itself *)

\* s.tools[tool.Name] = tool, before the handler is mounted
RegisterTool(tool) ==
    /\ mainpc = "new"
    /\ Len(regLog) < MaxRegs
    /\ tools' = Register(tools, tool)
    /\ regLog' = Append(regLog, tool)
    /\ UNCHANGED <<mainpc, conns>>

\* the caller mounts handleMCP on the server as it stands
Mount ==
    /\ mainpc = "new"
    /\ mainpc' = "serving"
    /\ UNCHANGED <<tools, regLog, conns>>

NextRegistry ==
    \/ SetupTools
    \/ ListenAndServe
    \/ \E tool \in Descriptors : RegisterTool(tool)
    \/ Mount
    \/ \E in \in RegistryRequests : handleMCP(1, in)
    \/ handleMCPDispatch(1)

SpecRegistry == Init /\ [][NextRegistry]_vars

-----------------------------------------------------------------------------
(* What a client sees of one exchange *)

Done(c) == conns[c].pc = "done"

\* the POST body reached json.Unmarshal
BodyRead(c) == conns[c].in.method = "POST" /\ ~conns[c].in.readErr

\* the exchange on c is finished and its body decoded into a request envelope
Answered(c) == Done(c) /\ BodyRead(c) /\ ~UnmarshalRequest(conns[c].in.body).err

\* the exchange on c is finished and its body failed to decode
Rejected(c) == Done(c) /\ BodyRead(c) /\ UnmarshalRequest(conns[c].in.body).err

\* the members of the request object as the client wrote them
SentId(c) == Field(conns[c].in.body, "id")
SentMethod(c) ==
    LET m == Field(conns[c].in.body, "method") IN IF m.k = "string" THEN m.s ELSE ""
SentParams(c) == Field(conns[c].in.body, "params")
SentToolName(c) ==
    LET n == Field(SentParams(c), "name") IN IF n.k = "string" THEN n.s ELSE ""
SentArguments(c) == Field(SentParams(c), "arguments")

\* the response object as the client reads it
Envelope(c) == conns[c].resp.body
IsEnvelope(c) ==
    /\ conns[c].resp.body.k = "object"
    /\ {"jsonrpc", "id"} \subseteq DOMAIN conns[c].resp.body.f
HasResult(c) == HasField(Envelope(c), "result")
HasError(c) == HasField(Envelope(c), "error")

\* the id a faithful echo returns: the id sent, null when none was sent
EchoOf(id) == IF id = NoBytes THEN JNull ELSE id
IdEchoed(c) == IsEnvelope(c) /\ Envelope(c).f["id"] = EchoOf(SentId(c))

KnownMethods == {"initialize", "tools/list", "tools/call"}
KnownTools == {"system_info", "echo"}

\* the entries of the tools array of a tools/list result
ListedTools(c) == Envelope(c).f["result"].f["tools"].items
ListAnswered(c) == Answered(c) /\ SentMethod(c) = "tools/list"
CallAnswered(c) == Answered(c) /\ SentMethod(c) = "tools/call"

-----------------------------------------------------------------------------
(* Claims *)

\* C1: every POST body that decodes into a request envelope is answered by
\* an envelope whose id equals the id sent (null when it was null or left
\* out) and that carries exactly one of result and error.
C1_IdEchoedOneOfResultError ==
    \A c \in Conns :
        Answered(c) => /\ IdEchoed(c)
                       /\ HasResult(c) # HasError(c)

\* C2: a body that fails to decode is answered by an error envelope with
\* code -32700, a null id and no result, and neither the dispatcher nor the
\* tool executor is entered.
C2_ParseErrorBypassesDispatch ==
    \A c \in Conns :
        Rejected(c) =>
            /\ conns[c].resp.status = 200
            /\ IsEnvelope(c)
            /\ HasError(c)
            /\ Envelope(c).f["error"].f["code"] = JInt(-32700)
            /\ Envelope(c).f["id"] = JNull
            /\ ~HasResult(c)
            /\ ~conns[c].dispatched
            /\ conns[c].execs = <<>>

C2_Witness ==
    \E c \in Conns :
        /\ Rejected(c)
        /\ conns[c].in.body.k = "object"
        /\ HasField(conns[c].in.body, "id")
        /\ HasError(c)

\* C3: a decoded request whose method is none of initialize, tools/list and
\* tools/call (a missing method included) is answered by an error envelope
\* with code -32601, the id sent and no result, and no tool is executed.
C3_MethodNotFound ==
    \A c \in Conns :
        (Answered(c) /\ SentMethod(c) \notin KnownMethods) =>
            /\ IsEnvelope(c)
            /\ HasError(c)
            /\ Envelope(c).f["error"].f["code"] = JInt(-32601)
            /\ IdEchoed(c)
            /\ ~HasResult(c)
            /\ conns[c].execs = <<>>

\* C4: a tools/call whose tool name is not a recognized tool (the empty name
\* of missing or undecodable params included) is answered by a successful
\* envelope: no error, the id sent, and result exactly {"error": "Unknown tool"}.
C4_UnknownToolInBand ==
    \A c \in Conns :
        (CallAnswered(c) /\ SentToolName(c) \notin KnownTools) =>
            /\ IsEnvelope(c)
            /\ ~HasError(c)
            /\ IdEchoed(c)
            /\ HasResult(c)
            /\ Envelope(c).f["result"] = JObj([error |-> JStr("Unknown tool")])

\* the message an echo call carries: the string at arguments.message, and the
\* empty string when arguments or message are missing or of another kind
SentMessage(c) ==
    LET m == Field(SentArguments(c), "message") IN IF m.k = "string" THEN m.s ELSE ""

\* C5: a tools/call naming echo is answered by a successful envelope whose
\* result content is the one entry {type: "text", text: "Echo: " + m}, m
\* being arguments.message when it is a string and "" otherwise.
C5_EchoLenient ==
    \A c \in Conns :
        (CallAnswered(c) /\ SentToolName(c) = "echo") =>
            /\ IsEnvelope(c)
            /\ ~HasError(c)
            /\ HasResult(c)
            /\ Envelope(c).f["result"] =
                   JObj([content |->
                       JArr(<<JObj([type |-> JStr("text"),
                                    text |-> JStr("Echo: " \o SentMessage(c))])>>)])

C5_Witness ==
    \E c \in Conns :
        /\ CallAnswered(c)
        /\ SentToolName(c) = "echo"
        /\ SentMessage(c) = "hi"
        /\ Envelope(c).f["result"].f["content"].items[1].f["text"] = JStr("Echo: hi")

\* C9: every response of the MCP endpoint, whatever the HTTP method and the
\* outcome, has the JSON content type.
C9_AlwaysJSONContentType ==
    \A c \in Conns : Done(c) => conns[c].resp.contentType = JSONType

\* the set of elements of a sequence
Range(seq) == {seq[i] : i \in 1..Len(seq)}

StartupRegistry == setupTools(EmptyRegistry)

\* C6: tools/list always succeeds and its tools array holds exactly the
\* descriptors in the registry, one per registered name: with the startup
\* registry an echo entry whose schema requires message and a system_info
\* entry, with an empty registry an empty array rather than null.
C6_ListIsRegistry ==
    \A c \in Conns :
        ListAnswered(c) =>
            /\ IsEnvelope(c)
            /\ HasResult(c)
            /\ ~HasError(c)
            /\ HasField(Envelope(c).f["result"], "tools")
            /\ Envelope(c).f["result"].f["tools"].k = "array"
            /\ Len(ListedTools(c)) = Cardinality(DOMAIN tools)
            /\ Range(ListedTools(c)) = {EncodeTool(tools[n]) : n \in DOMAIN tools}
            /\ \A n \in DOMAIN tools :
                   Cardinality({i \in 1..Len(ListedTools(c)) :
                                    ListedTools(c)[i].f["name"] = JStr(n)}) = 1
            /\ tools = EmptyRegistry => ListedTools(c) = <<>>
            /\ tools = StartupRegistry =>
                   /\ \E i \in 1..Len(ListedTools(c)) :
                          /\ ListedTools(c)[i].f["name"] = JStr("echo")
                          /\ ListedTools(c)[i].f["inputSchema"].f["required"]
                                 = JArr(<<JStr("message")>>)
                   /\ \E i \in 1..Len(ListedTools(c)) :
                          ListedTools(c)[i].f["name"] = JStr("system_info")

C6_Witness ==
    \E c \in Conns :
        /\ ListAnswered(c)
        /\ tools = StartupRegistry
        /\ Len(ListedTools(c)) = 2
        /\ ListedTools(c)[1].f["name"] = JStr("echo")

\* the Tool written last under name n
LastRegistered(n) ==
    LET last == CHOOSE i \in 1..Len(regLog) :
                    /\ regLog[i].Name = n
                    /\ \A j \in (i + 1)..Len(regLog) : regLog[j].Name # n
    IN regLog[last]

RegisteredNames == {regLog[i].Name : i \in 1..Len(regLog)}

\* C7: after registrations, two under one name included, the registry holds
\* exactly one entry per registered name, the descriptor registered last
\* under it, and tools/list shows each name exactly once with that descriptor.
C7_LastRegistrationWins ==
    /\ DOMAIN tools = RegisteredNames
    /\ \A n \in RegisteredNames : tools[n] = LastRegistered(n)
    /\ \A c \in Conns :
           ListAnswered(c) =>
               \A n \in RegisteredNames :
                   /\ Cardinality({i \in 1..Len(ListedTools(c)) :
                                       ListedTools(c)[i].f["name"] = JStr(n)}) = 1
                   /\ EncodeTool(LastRegistered(n)) \in Range(ListedTools(c))

C7_Witness ==
    \E c \in Conns, i, j \in 1..Len(regLog) :
        /\ i < j
        /\ regLog[i].Name = regLog[j].Name
        /\ regLog[i] # regLog[j]
        /\ LastRegistered(regLog[i].Name) = regLog[j]
        /\ ListAnswered(c)
        /\ EncodeTool(regLog[j]) \in Range(ListedTools(c))
        /\ EncodeTool(regLog[i]) \notin Range(ListedTools(c))

InFlight(c) == conns[c].pc # "idle"

\* C8: the registry is fully populated before the first request is served and
\* no handler step writes it: while any request is or has been handled, under
\* every interleaving, the registry is the startup registry, no step changes
\* it, and every tools/list returns the same set of descriptors.
C8_RegistryFrozenWhileServing ==
    [][ (mainpc = "serving" \/ \E c \in Conns : InFlight(c)) =>
            /\ mainpc = "serving"
            /\ tools = StartupRegistry
            /\ tools' = tools
            /\ \A c \in Conns :
                   ListAnswered(c)' =>
                       Range(ListedTools(c))' =
                           {EncodeTool(SystemInfoTool), EncodeTool(EchoTool)} ]_vars

C8_Witness ==
    \E c, d \in Conns :
        /\ c # d
        /\ conns[c].pc = "dispatch" /\ conns[c].req.Method = "tools/list"
        /\ conns[d].pc = "dispatch" /\ conns[d].req.Method = "tools/call"

=============================================================================
